---- MODULE Spec2Model ----
(***************************************************************************)
(* calc_lang: a line-oriented calculator.  One line of text is lexed into  *)
(* spanned raw tokens (raw_token.rs), reordered into postfix order by the  *)
(* resolver (tokens.rs, driving parsr's CreateTokenProcessor) and executed *)
(* by a stack evaluator against a persistent environment (run.rs), once    *)
(* per line of the console loop (console.rs).                              *)
(*                                                                         *)
(* The three stages are lazy iterators chained into one another: run pulls *)
(* a resolved token, the resolver pulls raw tokens until it has one to     *)
(* give.  The model follows that order: a raw token is lexed only when run *)
(* has consumed everything the resolver has yielded so far.                *)
(***************************************************************************)
EXTENDS Integers, Sequences, FiniteSets, TLC

(***************************************************************************)
(* Bounds of the model.                                                    *)
(***************************************************************************)
\* raw tokens per line, full alphabet
MaxLen == 4
\* lines read by the console loop
MaxLines == 2
\* raw tokens per line, arithmetic/assignment alphabet
MaxArithLen == 7
\* raw tokens per line, session alphabet
MaxSessionLen == 5
\* raw tokens per line, statement alphabet
MaxStmtLen == 7
\* raw tokens per line, print alphabet
MaxPrintLen == 4
\* raw tokens per line, single-assignment alphabet
MaxAssignLen == 10
\* characters of a text given to the lexer
MaxTextLen == 5
\* raw tokens per line, alphabet of the lines compared with and without a final `;`
MaxSemiLen == 5

Idents == {"a", "b"}
Numbers == {0, 1}
Symbols == {"Equals", "Add", "Sub", "Mul", "Div", "LeftParen", "RightParen",
            "Print", "Semicolon"}

(***************************************************************************)
(* Spans: half-open [start, end) offsets into the line.                    *)
(***************************************************************************)
Span(s, e) == [start |-> s, end |-> e]

DefaultSpan == Span(0, 0)

Min(x, y) == IF x <= y THEN x ELSE y

Max(x, y) == IF x >= y THEN x ELSE y

from_self_to_other(self, other) ==
    Span(Min(self.start, other.start), Max(self.end, other.end))

(***************************************************************************)
(* f64 values.  A value is a sign and a magnitude: zero, a positive        *)
(* rational n/d in lowest terms, infinity, or NaN.  Arithmetic is exact on *)
(* the rationals, which is IEEE-754 arithmetic wherever the result is      *)
(* representable; the special cases follow IEEE-754.                       *)
(***************************************************************************)
RECURSIVE GCD(_, _)
GCD(x, y) == IF y = 0 THEN x ELSE GCD(y, x % y)

Abs(x) == IF x < 0 THEN -x ELSE x

Zero(s) == [k |-> "zero", s |-> s, n |-> 0, d |-> 1]

Inf(s) == [k |-> "inf", s |-> s, n |-> 1, d |-> 0]

NaN == [k |-> "nan", s |-> 1, n |-> 0, d |-> 0]

\* the value of the signed rational p/q, q > 0, p # 0
Fin(p, q) ==
    LET g == GCD(Abs(p), q)
    IN  [k |-> "fin", s |-> IF p < 0 THEN -1 ELSE 1, n |-> Abs(p) \div g, d |-> q \div g]

\* the value of a number literal (digits only: a non-negative integer)
Num(i) == IF i = 0 THEN Zero(1) ELSE Fin(i, 1)

Neg(x) == IF x.k = "nan" THEN NaN ELSE [x EXCEPT !.s = -x.s]

F64Add(x, y) ==
    CASE x.k = "nan" \/ y.k = "nan" -> NaN
      [] x.k = "inf" /\ y.k = "inf" -> IF x.s = y.s THEN x ELSE NaN
      [] x.k = "inf" -> x
      [] y.k = "inf" -> y
      [] x.k = "zero" /\ y.k = "zero" -> IF x.s = -1 /\ y.s = -1 THEN Zero(-1) ELSE Zero(1)
      [] x.k = "zero" -> y
      [] y.k = "zero" -> x
      [] OTHER ->
            LET p == x.s * x.n * y.d + y.s * y.n * x.d
            IN  IF p = 0 THEN Zero(1) ELSE Fin(p, x.d * y.d)

F64Sub(x, y) == F64Add(x, Neg(y))

F64Mul(x, y) ==
    CASE x.k = "nan" \/ y.k = "nan" -> NaN
      [] (x.k = "inf" /\ y.k = "zero") \/ (x.k = "zero" /\ y.k = "inf") -> NaN
      [] x.k = "inf" \/ y.k = "inf" -> Inf(x.s * y.s)
      [] x.k = "zero" \/ y.k = "zero" -> Zero(x.s * y.s)
      [] OTHER -> Fin(x.s * y.s * x.n * y.n, x.d * y.d)

F64Div(x, y) ==
    CASE x.k = "nan" \/ y.k = "nan" -> NaN
      [] (x.k = "inf" /\ y.k = "inf") \/ (x.k = "zero" /\ y.k = "zero") -> NaN
      [] x.k = "inf" \/ y.k = "zero" -> Inf(x.s * y.s)
      [] x.k = "zero" \/ y.k = "inf" -> Zero(x.s * y.s)
      [] OTHER -> Fin(x.s * y.s * x.n * y.d, x.d * y.n)

(***************************************************************************)
(* Display of an f64 (print!(" {val}")): integers without a fraction, the  *)
(* specials as Rust spells them, other values as their decimal expansion   *)
(* up to 17 digits.                                                        *)
(***************************************************************************)
Digit(i) ==
    CASE i = 0 -> "0" [] i = 1 -> "1" [] i = 2 -> "2" [] i = 3 -> "3" [] i = 4 -> "4"
      [] i = 5 -> "5" [] i = 6 -> "6" [] i = 7 -> "7" [] i = 8 -> "8" [] OTHER -> "9"

RECURSIVE NatStr(_)
NatStr(i) == IF i < 10 THEN Digit(i) ELSE NatStr(i \div 10) \o Digit(i % 10)

RECURSIVE FracStr(_, _, _)
FracStr(r, d, left) ==
    IF r = 0 \/ left = 0 THEN ""
    ELSE Digit((r * 10) \div d) \o FracStr((r * 10) % d, d, left - 1)

FormatF64(x) ==
    LET sign == IF x.s = -1 THEN "-" ELSE ""
    IN  CASE x.k = "nan" -> "NaN"
          [] x.k = "inf" -> sign \o "inf"
          [] x.k = "zero" -> sign \o "0"
          [] x.d = 1 -> sign \o NatStr(x.n)
          [] OTHER -> sign \o NatStr(x.n \div x.d) \o "." \o FracStr(x.n % x.d, x.d, 17)

(***************************************************************************)
(* Results and spanned payloads.                                           *)
(***************************************************************************)
Spanned(inner, span) == [inner |-> inner, span |-> span]

Ok(v) == [ok |-> TRUE, val |-> v]

\* a spanned error: span.over(error)
Err(family, kind, span) == [ok |-> FALSE, family |-> family, kind |-> kind, span |-> span]

(***************************************************************************)
(* Raw tokens (raw_token.rs).                                              *)
(***************************************************************************)
RawIdent(id) == [kind |-> "Ident", id |-> id]

RawNumber(i) == [kind |-> "Number", num |-> Num(i)]

RawSymbol(sym) == [kind |-> "Symbol", sym |-> sym]

\* the lexer's error item: a character that is no letter, digit or symbol
RawBad == [kind |-> "Bad"]

ValueTokens == {RawIdent(id) : id \in Idents} \cup {RawNumber(i) : i \in Numbers}

RawTokens == ValueTokens \cup {RawSymbol(sym) : sym \in Symbols}

(***************************************************************************)
(* The lexer on characters (raw_token.rs).  A text is a sequence of        *)
(* one-character strings and offsets count from 0, so that the entry       *)
(* read from offset from to offset to has the span [from, to).  What the   *)
(* cursor, the whitespace trimmer and the interner of the parsr crate do   *)
(* is taken from the specification.  A number's value is the exact         *)
(* decimal it spells.                                                      *)
(***************************************************************************)
Alphabetic == {"a", "b"}

Numeric == {"0", "1", "2", "3", "4", "5", "6", "7", "8", "9"}

Whitespace == {" ", "\n"}

SymbolOf(c) ==
    CASE c = "=" -> "Equals" [] c = "+" -> "Add" [] c = "-" -> "Sub" [] c = "*" -> "Mul"
      [] c = "/" -> "Div" [] c = "(" -> "LeftParen" [] c = ")" -> "RightParen"
      [] c = "%" -> "Print" [] c = ";" -> "Semicolon" [] OTHER -> "None"

DigitValue(c) ==
    CASE c = "0" -> 0 [] c = "1" -> 1 [] c = "2" -> 2 [] c = "3" -> 3 [] c = "4" -> 4
      [] c = "5" -> 5 [] c = "6" -> 6 [] c = "7" -> 7 [] c = "8" -> 8 [] c = "9" -> 9

\* the offset at which the run of characters of the set run that begins at from ends
RECURSIVE read_until(_, _, _)
read_until(txt, from, run) ==
    IF from < Len(txt) /\ txt[from + 1] \in run THEN read_until(txt, from + 1, run)
    ELSE from

TrimWhitespace(txt, from) == read_until(txt, from, Whitespace)

Slice(txt, from, to) == SubSeq(txt, from + 1, to)

RECURSIVE Concat(_)
Concat(cs) == IF cs = <<>> THEN "" ELSE Head(cs) \o Concat(Tail(cs))

RECURSIVE DigitsValue(_, _)
DigitsValue(cs, acc) ==
    IF cs = <<>> THEN acc
    ELSE IF Head(cs) = "." THEN DigitsValue(Tail(cs), acc)
    ELSE DigitsValue(Tail(cs), 10 * acc + DigitValue(Head(cs)))

RECURSIVE Pow10(_)
Pow10(k) == IF k = 0 THEN 1 ELSE 10 * Pow10(k - 1)

\* str::parse::<f64> on a run of digits and `.` that begins with a digit: at most
\* one `.` parses, with or without digits after it
ParseF64(cs) ==
    LET dots == {i \in 1..Len(cs) : cs[i] = "."}
    IN  IF Cardinality(dots) > 1 THEN [ok |-> FALSE, num |-> NaN]
        ELSE LET frac == IF dots = {} THEN 0 ELSE Len(cs) - (CHOOSE i \in dots : TRUE)
                 n == DigitsValue(cs, 0)
             IN  [ok |-> TRUE, num |-> IF n = 0 THEN Zero(1) ELSE Fin(n, Pow10(frac))]

\* Interner::insert: the handle of a spelling is its place in the order of first
\* insertion
InternerInsert(int, spelling) ==
    IF \E i \in 1..Len(int) : int[i] = spelling
    THEN [interner |-> int, id |-> (CHOOSE i \in 1..Len(int) : int[i] = spelling) - 1]
    ELSE [interner |-> Append(int, spelling), id |-> Len(int)]

Lexed(item, cur, int) == [item |-> item, cursor |-> cur, interner |-> int]

\* __parse reporting a run that does not parse as a number at its first character
ParseRawToken_first_char(txt, from, int) ==
    LET c == txt[from + 1]
    IN  IF c \in Alphabetic
        THEN LET to == read_until(txt, from, Alphabetic)
                 ins == InternerInsert(int, Concat(Slice(txt, from, to)))
             IN  Lexed(Ok(Spanned(RawIdent(ins.id), Span(from, to))), to, ins.interner)
        ELSE IF c \in Numeric
        THEN LET to == read_until(txt, from, Numeric \cup {"."})
                 num == ParseF64(Slice(txt, from, to))
             IN  IF num.ok
                 THEN Lexed(Ok(Spanned([kind |-> "Number", num |-> num.num], Span(from, to))),
                            to, int)
                 ELSE Lexed(Err("RawToken", "UnexpectedCharacter", Span(from, from + 1)),
                            from, int)
        ELSE IF SymbolOf(c) # "None"
        THEN Lexed(Ok(Spanned(RawSymbol(SymbolOf(c)), Span(from, from + 1))), from + 1, int)
        ELSE Lexed(Err("RawToken", "UnexpectedCharacter", Span(from, from + 1)), from, int)

\* __parse taking one letter for an identifier
ParseRawToken_one_letter(txt, from, int) ==
    LET c == txt[from + 1]
    IN  IF c \in Alphabetic
        THEN LET to == from + 1
                 ins == InternerInsert(int, Concat(Slice(txt, from, to)))
             IN  Lexed(Ok(Spanned(RawIdent(ins.id), Span(from, to))), to, ins.interner)
        ELSE IF c \in Numeric
        THEN LET to == read_until(txt, from, Numeric \cup {"."})
                 num == ParseF64(Slice(txt, from, to))
             IN  IF num.ok
                 THEN Lexed(Ok(Spanned([kind |-> "Number", num |-> num.num], Span(from, to))),
                            to, int)
                 ELSE Lexed(Err("RawToken", "UnexpectedCharacter", Span(from, to)), from, int)
        ELSE IF SymbolOf(c) # "None"
        THEN Lexed(Ok(Spanned(RawSymbol(SymbolOf(c)), Span(from, from + 1))), from + 1, int)
        ELSE Lexed(Err("RawToken", "UnexpectedCharacter", Span(from, from + 1)), from, int)

\* ParseRawToken::__parse and the closure parse_raw_tokens maps over it: the item lexed
\* at offset from, where a character that is no whitespace stands
ParseRawToken(txt, from, int) ==
    LET c == txt[from + 1]
    IN  IF c \in Alphabetic
        THEN LET to == read_until(txt, from, Alphabetic)
                 ins == InternerInsert(int, Concat(Slice(txt, from, to)))
             IN  Lexed(Ok(Spanned(RawIdent(ins.id), Span(from, to))), to, ins.interner)
        ELSE IF c \in Numeric
        THEN LET to == read_until(txt, from, Numeric \cup {"."})
                 num == ParseF64(Slice(txt, from, to))
             IN  IF num.ok
                 THEN Lexed(Ok(Spanned([kind |-> "Number", num |-> num.num], Span(from, to))),
                            to, int)
                 ELSE Lexed(Err("RawToken", "UnexpectedCharacter", Span(from, to)), from, int)
        ELSE IF SymbolOf(c) # "None"
        THEN Lexed(Ok(Spanned(RawSymbol(SymbolOf(c)), Span(from, from + 1))), from + 1, int)
        ELSE Lexed(Err("RawToken", "UnexpectedCharacter", Span(from, from + 1)), from, int)

(***************************************************************************)
(* Resolved tokens and the resolver's hooks (tokens.rs).                   *)
(***************************************************************************)
TokIdent(id) == [t |-> "Ident", id |-> id]

TokNumber(num) == [t |-> "Number", num |-> num]

TokOperator(op) == [t |-> "Operator", op |-> op]

IsValue(tok) == tok.t \in {"Ident", "Number"}

Resolved(tok, span) == [tag |-> "Resolved", tok |-> tok, span |-> span]

Ordering(ord, span) == [tag |-> "Ordering", ord |-> ord, span |-> span]

\* get_type with * and / at the precedence of + and -
get_type_flat(op) ==
    CASE op = "Equals" -> [precedence |-> 1, associativity |-> "Right"]
      [] op \in {"Add", "Sub", "Mul", "Div"} -> [precedence |-> 2, associativity |-> "Left"]
      [] op = "Print" -> [precedence |-> 4, associativity |-> "Right"]
      [] op = "Semicolon" -> [precedence |-> 0, associativity |-> "Left"]

\* get_type with a left-associative Equals
get_type_left_equals(op) ==
    CASE op = "Equals" -> [precedence |-> 1, associativity |-> "Left"]
      [] op \in {"Add", "Sub"} -> [precedence |-> 2, associativity |-> "Left"]
      [] op \in {"Mul", "Div"} -> [precedence |-> 3, associativity |-> "Left"]
      [] op = "Print" -> [precedence |-> 4, associativity |-> "Right"]
      [] op = "Semicolon" -> [precedence |-> 0, associativity |-> "Left"]

\* impl IsResolvedToken for Operator: precedence and associativity
get_type(op) ==
    CASE op = "Equals" -> [precedence |-> 1, associativity |-> "Right"]
      [] op \in {"Add", "Sub"} -> [precedence |-> 2, associativity |-> "Left"]
      [] op \in {"Mul", "Div"} -> [precedence |-> 3, associativity |-> "Left"]
      [] op = "Print" -> [precedence |-> 4, associativity |-> "Right"]
      [] op = "Semicolon" -> [precedence |-> 0, associativity |-> "Left"]

\* impl IsOrdering for Ordering
behaviour(ord) ==
    IF ord = "LeftParen"
    THEN [b |-> "Right", precedence |-> 5, closed |-> TRUE]
    ELSE [b |-> "ClosedLeft", precedence |-> 0, closed |-> FALSE]

\* delete_closed_ordering without the span of the ordering
delete_closed_ordering_unspanned(ordering) ==
    Err("ProcessorError", "UnclosedRightBracket", DefaultSpan)

\* impl IsState for State: the error of a `)` that closes nothing
delete_closed_ordering(ordering) ==
    Err("ProcessorError", "UnclosedRightBracket", ordering.span)

\* no_ordering_found with the error of the other bracket
no_ordering_found_other(ordering) ==
    Err("ProcessorError", "UnclosedRightBracket", ordering.span)

\* impl IsState for State: the error of a `(` left on the stack at the end
no_ordering_found(ordering) ==
    Err("ProcessorError", "UnclosedLeftBracket", ordering.span)

\* impl Default for TokenTree
DefaultTokenTree == "StartExpression"

\* impl FromStackEntry for TokenTree: the mode after an accepted entry
from_entry(entry) ==
    IF entry.tag = "Resolved"
    THEN IF IsValue(entry.tok) THEN "EndExpression" ELSE "StartExpression"
    ELSE IF entry.ord = "LeftParen" THEN "StartExpression" ELSE "EndExpression"

\* transition with `%` also taken as an operator in EndExpression
transition_print_after_value(self, token) ==
    LET raw == token.inner
    IN  IF self = "StartExpression"
        THEN CASE raw.kind = "Ident" -> Ok(Resolved(TokIdent(raw.id), token.span))
               [] raw.kind = "Number" -> Ok(Resolved(TokNumber(raw.num), token.span))
               [] OTHER ->
                    CASE raw.sym = "LeftParen" -> Ok(Ordering("LeftParen", token.span))
                      [] raw.sym \in {"Print", "Semicolon"} ->
                            Ok(Resolved(TokOperator(raw.sym), token.span))
                      [] OTHER -> Err("ProcessorError", "ExpectedExpression", token.span)
        ELSE IF raw.kind = "Symbol"
             THEN CASE raw.sym \in {"Equals", "Add", "Sub", "Mul", "Div", "Print",
                                    "Semicolon"} ->
                            Ok(Resolved(TokOperator(raw.sym), token.span))
                    [] raw.sym = "RightParen" -> Ok(Ordering("RightParen", token.span))
                    [] OTHER -> Err("ProcessorError", "DidNotExpectExpression", token.span)
             ELSE Err("ProcessorError", "DidNotExpectExpression", token.span)

\* impl HasStateTransition for TokenTree
transition(self, token) ==
    LET raw == token.inner
    IN  IF self = "StartExpression"
        THEN CASE raw.kind = "Ident" -> Ok(Resolved(TokIdent(raw.id), token.span))
               [] raw.kind = "Number" -> Ok(Resolved(TokNumber(raw.num), token.span))
               [] OTHER ->
                    CASE raw.sym = "LeftParen" -> Ok(Ordering("LeftParen", token.span))
                      [] raw.sym = "Print" -> Ok(Resolved(TokOperator("Print"), token.span))
                      [] raw.sym = "Semicolon" ->
                            Ok(Resolved(TokOperator("Semicolon"), token.span))
                      [] OTHER -> Err("ProcessorError", "ExpectedExpression", token.span)
        ELSE IF raw.kind = "Symbol"
             THEN CASE raw.sym \in {"Equals", "Add", "Sub", "Mul", "Div"} ->
                            Ok(Resolved(TokOperator(raw.sym), token.span))
                    [] raw.sym = "RightParen" -> Ok(Ordering("RightParen", token.span))
                    [] raw.sym = "Semicolon" ->
                            Ok(Resolved(TokOperator("Semicolon"), token.span))
                    [] OTHER -> Err("ProcessorError", "DidNotExpectExpression", token.span)
             ELSE Err("ProcessorError", "DidNotExpectExpression", token.span)

(***************************************************************************)
(* The token processor (parsr's CreateTokenProcessor, driven by the hooks  *)
(* above): an operator/ordering stack, top at the end of the sequence.     *)
(* Each operator returns the new stack and the items it yields, in order.  *)
(***************************************************************************)
Top(stk) == stk[Len(stk)]

Pop(stk) == SubSeq(stk, 1, Len(stk) - 1)

\* the operator on top of the stack goes out before an incoming operator of type ty
MustPrecede(top, ty) ==
    /\ top.tag = "Resolved"
    /\ LET tt == get_type(top.tok.op)
       IN  \/ tt.precedence > ty.precedence
           \/ tt.precedence = ty.precedence /\ ty.associativity = "Left"

RECURSIVE PopPreceding(_, _, _)
PopPreceding(stk, ty, out) ==
    IF stk # <<>> /\ MustPrecede(Top(stk), ty)
    THEN PopPreceding(Pop(stk), ty, Append(out, Ok(Spanned(Top(stk).tok, Top(stk).span))))
    ELSE [stack |-> stk, out |-> out]

\* an incoming `)`: operators go out down to the nearest `(`; both parens are dropped
RECURSIVE CloseOrdering(_, _, _)
CloseOrdering(stk, ordering, out) ==
    IF stk = <<>>
    THEN [stack |-> stk, out |-> Append(out, delete_closed_ordering(ordering))]
    ELSE IF Top(stk).tag = "Ordering"
         THEN [stack |-> Pop(stk), out |-> out]
         ELSE CloseOrdering(Pop(stk), ordering,
                            Append(out, Ok(Spanned(Top(stk).tok, Top(stk).span))))

\* one accepted entry
Reorder(stk, entry) ==
    IF entry.tag = "Resolved"
    THEN IF IsValue(entry.tok)
         THEN [stack |-> stk, out |-> <<Ok(Spanned(entry.tok, entry.span))>>]
         ELSE LET r == PopPreceding(stk, get_type(entry.tok.op), <<>>)
              IN  [stack |-> Append(r.stack, entry), out |-> r.out]
    ELSE IF behaviour(entry.ord).b = "Right"
         THEN [stack |-> Append(stk, entry), out |-> <<>>]
         ELSE CloseOrdering(stk, entry, <<>>)

\* end of input: everything left goes out; a `(` still there is an error
RECURSIVE Flush(_, _)
Flush(stk, out) ==
    IF stk = <<>>
    THEN [stack |-> stk, out |-> out]
    ELSE IF Top(stk).tag = "Ordering"
         THEN [stack |-> Pop(stk), out |-> Append(out, no_ordering_found(Top(stk)))]
         ELSE Flush(Pop(stk), Append(out, Ok(Spanned(Top(stk).tok, Top(stk).span))))

\* one raw item through the processor: the new mode, the new stack, the items yielded
Process(md, stk, token) ==
    IF token.inner.kind = "Bad"
    THEN [mode |-> md, stack |-> stk,
          out |-> <<Err("RawToken", "UnexpectedCharacter", token.span)>>]
    ELSE LET t == transition(md, token)
         IN  IF ~t.ok
             THEN [mode |-> md, stack |-> stk, out |-> <<t>>]
             ELSE LET r == Reorder(stk, t.val)
                  IN  [mode |-> from_entry(t.val), stack |-> r.stack, out |-> r.out]

(***************************************************************************)
(* The evaluator (run.rs).  The value stack holds spanned Stack entries,   *)
(* top at the end; the environment maps a subset of the identifiers to     *)
(* f64 values.  An arm returns the outcome ("ok", "err" or "panic": an     *)
(* unwrap of an empty pop), the new stack, environment and output, and the *)
(* Equals writes it performed.                                             *)
(***************************************************************************)
StackValue(num) == [k |-> "Value", num |-> num]

StackIdent(id) == [k |-> "Ident", id |-> id]

StackNull == [k |-> "Null"]

\* State::new
NewVariables == [id \in {} |-> Zero(1)]

Insert(vars, id, num) ==
    [x \in DOMAIN vars \cup {id} |-> IF x = id THEN num ELSE vars[x]]

RunErr(kind, span) == Err("RunError", kind, span)

\* pop_number with its errors at the default span
pop_number_unspanned(vars, stk) ==
    IF stk = <<>>
    THEN [status |-> "panic", rest |-> stk]
    ELSE LET num_stack == Top(stk)
         IN  CASE num_stack.inner.k = "Value" ->
                    [status |-> "ok", rest |-> Pop(stk), num |-> num_stack.inner.num,
                     span |-> num_stack.span]
               [] num_stack.inner.k = "Ident" ->
                    IF num_stack.inner.id \in DOMAIN vars
                    THEN [status |-> "ok", rest |-> Pop(stk),
                          num |-> vars[num_stack.inner.id], span |-> num_stack.span]
                    ELSE [status |-> "err", rest |-> Pop(stk),
                          err |-> RunErr("UnassignedVariable", DefaultSpan)]
               [] OTHER ->
                    [status |-> "err", rest |-> Pop(stk),
                     err |-> RunErr("AttemptedToUseNull", DefaultSpan)]

\* fn pop_number
pop_number(vars, stk) ==
    IF stk = <<>>
    THEN [status |-> "panic", rest |-> stk]
    ELSE LET num_stack == Top(stk)
         IN  CASE num_stack.inner.k = "Value" ->
                    [status |-> "ok", rest |-> Pop(stk), num |-> num_stack.inner.num,
                     span |-> num_stack.span]
               [] num_stack.inner.k = "Ident" ->
                    IF num_stack.inner.id \in DOMAIN vars
                    THEN [status |-> "ok", rest |-> Pop(stk),
                          num |-> vars[num_stack.inner.id], span |-> num_stack.span]
                    ELSE [status |-> "err", rest |-> Pop(stk),
                          err |-> RunErr("UnassignedVariable", num_stack.span)]
               [] OTHER ->
                    [status |-> "err", rest |-> Pop(stk),
                     err |-> RunErr("AttemptedToUseNull", num_stack.span)]

Outcome(status, stk, vars, out, err, writes) ==
    [status |-> status, stack |-> stk, variables |-> vars, printed |-> out, err |-> err,
     writes |-> writes]

NoErr == Err("", "", DefaultSpan)

Failed(r, vars, out) ==
    Outcome(r.status, r.rest, vars, out, IF r.status = "err" THEN r.err ELSE NoErr, <<>>)

Compute(op, l, r) ==
    CASE op = "Add" -> F64Add(l, r)
      [] op = "Sub" -> F64Sub(l, r)
      [] op = "Mul" -> F64Mul(l, r)
      [] op = "Div" -> F64Div(l, r)

\* the Add, Sub, Mul and Div arms taking the operands in the order they are popped
RunBinary_swapped(op, vars, stk, out) ==
    LET right == pop_number(vars, stk)
    IN  IF right.status # "ok" THEN Failed(right, vars, out)
        ELSE LET left == pop_number(vars, right.rest)
             IN  IF left.status # "ok" THEN Failed(left, vars, out)
                 ELSE Outcome("ok",
                              Append(left.rest,
                                     Spanned(StackValue(Compute(op, right.num, left.num)),
                                             from_self_to_other(left.span, right.span))),
                              vars, out, NoErr, <<>>)

\* the Add, Sub, Mul and Div arms with Div failing on a zero divisor
RunBinary_zero_divisor(op, vars, stk, out) ==
    LET right == pop_number(vars, stk)
    IN  IF right.status # "ok" THEN Failed(right, vars, out)
        ELSE LET left == pop_number(vars, right.rest)
             IN  IF left.status # "ok" THEN Failed(left, vars, out)
                 ELSE IF op = "Div" /\ right.num.k = "zero"
                 THEN Outcome("err", left.rest, vars, out,
                              RunErr("DivisionByZero", right.span), <<>>)
                 ELSE Outcome("ok",
                              Append(left.rest,
                                     Spanned(StackValue(Compute(op, left.num, right.num)),
                                             from_self_to_other(left.span, right.span))),
                              vars, out, NoErr, <<>>)

\* the Add, Sub, Mul and Div arms
RunBinary(op, vars, stk, out) ==
    LET right == pop_number(vars, stk)
    IN  IF right.status # "ok" THEN Failed(right, vars, out)
        ELSE LET left == pop_number(vars, right.rest)
             IN  IF left.status # "ok" THEN Failed(left, vars, out)
                 ELSE Outcome("ok",
                              Append(left.rest,
                                     Spanned(StackValue(Compute(op, left.num, right.num)),
                                             from_self_to_other(left.span, right.span))),
                              vars, out, NoErr, <<>>)

\* the Equals arm with the two errors of its left entry exchanged
RunEquals_exchanged(vars, stk, out) ==
    LET num == pop_number(vars, stk)
    IN  IF num.status # "ok" THEN Failed(num, vars, out)
        ELSE IF num.rest = <<>> THEN Outcome("panic", num.rest, vars, out, NoErr, <<>>)
        ELSE LET var_stack == Top(num.rest)
                 rest == Pop(num.rest)
             IN  CASE var_stack.inner.k = "Value" ->
                        Outcome("err", rest, vars, out,
                                RunErr("AssigningToNull", var_stack.span), <<>>)
                   [] var_stack.inner.k = "Null" ->
                        Outcome("err", rest, vars, out,
                                RunErr("AssigningToExpression", var_stack.span), <<>>)
                   [] OTHER ->
                        Outcome("ok",
                                Append(rest,
                                       Spanned(StackIdent(var_stack.inner.id),
                                               from_self_to_other(var_stack.span, num.span))),
                                Insert(vars, var_stack.inner.id, num.num), out, NoErr,
                                <<[id |-> var_stack.inner.id, num |-> num.num]>>)

\* the Equals arm leaving the assigned number, not the identifier, on the stack
RunEquals_pushes_value(vars, stk, out) ==
    LET num == pop_number(vars, stk)
    IN  IF num.status # "ok" THEN Failed(num, vars, out)
        ELSE IF num.rest = <<>> THEN Outcome("panic", num.rest, vars, out, NoErr, <<>>)
        ELSE LET var_stack == Top(num.rest)
                 rest == Pop(num.rest)
             IN  CASE var_stack.inner.k = "Value" ->
                        Outcome("err", rest, vars, out,
                                RunErr("AssigningToExpression", var_stack.span), <<>>)
                   [] var_stack.inner.k = "Null" ->
                        Outcome("err", rest, vars, out,
                                RunErr("AssigningToNull", var_stack.span), <<>>)
                   [] OTHER ->
                        Outcome("ok",
                                Append(rest,
                                       Spanned(StackValue(num.num),
                                               from_self_to_other(var_stack.span, num.span))),
                                Insert(vars, var_stack.inner.id, num.num), out, NoErr,
                                <<[id |-> var_stack.inner.id, num |-> num.num]>>)

\* the Equals arm
RunEquals(vars, stk, out) ==
    LET num == pop_number(vars, stk)
    IN  IF num.status # "ok" THEN Failed(num, vars, out)
        ELSE IF num.rest = <<>> THEN Outcome("panic", num.rest, vars, out, NoErr, <<>>)
        ELSE LET var_stack == Top(num.rest)
                 rest == Pop(num.rest)
             IN  CASE var_stack.inner.k = "Value" ->
                        Outcome("err", rest, vars, out,
                                RunErr("AssigningToExpression", var_stack.span), <<>>)
                   [] var_stack.inner.k = "Null" ->
                        Outcome("err", rest, vars, out,
                                RunErr("AssigningToNull", var_stack.span), <<>>)
                   [] OTHER ->
                        Outcome("ok",
                                Append(rest,
                                       Spanned(StackIdent(var_stack.inner.id),
                                               from_self_to_other(var_stack.span, num.span))),
                                Insert(vars, var_stack.inner.id, num.num), out, NoErr,
                                <<[id |-> var_stack.inner.id, num |-> num.num]>>)

\* the arm of the print operator writing the value without the leading space
RunPrint_no_space(span, vars, stk, out) ==
    IF stk = <<>> THEN Outcome("panic", stk, vars, out, NoErr, <<>>)
    ELSE LET popped == Top(stk)
             rest == Pop(stk)
         IN  CASE popped.inner.k = "Ident" /\ popped.inner.id \notin DOMAIN vars ->
                    Outcome("err", rest, vars, out,
                            RunErr("UnassignedVariable", popped.span), <<>>)
               [] popped.inner.k = "Null" ->
                    Outcome("err", rest, vars, out,
                            RunErr("AttemptedToPrintNull", popped.span), <<>>)
               [] OTHER ->
                    LET val == IF popped.inner.k = "Value" THEN popped.inner.num
                               ELSE vars[popped.inner.id]
                    IN  Outcome("ok",
                                Append(rest, Spanned(popped.inner,
                                                     from_self_to_other(span, popped.span))),
                                vars, Append(out, FormatF64(val)), NoErr, <<>>)

\* the arm of the print operator leaving the printed number on the stack
RunPrint_resolved(span, vars, stk, out) ==
    IF stk = <<>> THEN Outcome("panic", stk, vars, out, NoErr, <<>>)
    ELSE LET popped == Top(stk)
             rest == Pop(stk)
         IN  CASE popped.inner.k = "Ident" /\ popped.inner.id \notin DOMAIN vars ->
                    Outcome("err", rest, vars, out,
                            RunErr("UnassignedVariable", popped.span), <<>>)
               [] popped.inner.k = "Null" ->
                    Outcome("err", rest, vars, out,
                            RunErr("AttemptedToPrintNull", popped.span), <<>>)
               [] OTHER ->
                    LET val == IF popped.inner.k = "Value" THEN popped.inner.num
                               ELSE vars[popped.inner.id]
                    IN  Outcome("ok",
                                Append(rest, Spanned(StackValue(val),
                                                     from_self_to_other(span, popped.span))),
                                vars, Append(out, " " \o FormatF64(val)), NoErr, <<>>)

\* the arm of the print operator
RunPrint(span, vars, stk, out) ==
    IF stk = <<>> THEN Outcome("panic", stk, vars, out, NoErr, <<>>)
    ELSE LET popped == Top(stk)
             rest == Pop(stk)
         IN  CASE popped.inner.k = "Ident" /\ popped.inner.id \notin DOMAIN vars ->
                    Outcome("err", rest, vars, out,
                            RunErr("UnassignedVariable", popped.span), <<>>)
               [] popped.inner.k = "Null" ->
                    Outcome("err", rest, vars, out,
                            RunErr("AttemptedToPrintNull", popped.span), <<>>)
               [] OTHER ->
                    LET val == IF popped.inner.k = "Value" THEN popped.inner.num
                               ELSE vars[popped.inner.id]
                    IN  Outcome("ok",
                                Append(rest, Spanned(popped.inner,
                                                     from_self_to_other(span, popped.span))),
                                vars, Append(out, " " \o FormatF64(val)), NoErr, <<>>)

\* the Semicolon arm pushing its Null without the while loop
CollapseNulls_no_loop(stk, span) == Append(stk, Spanned(StackNull, span))

\* the while loop of the Semicolon arm: Nulls on top are merged into span
RECURSIVE CollapseNulls(_, _)
CollapseNulls(stk, span) ==
    IF stk # <<>> /\ Top(stk).inner.k = "Null"
    THEN CollapseNulls(Pop(stk), from_self_to_other(Top(stk).span, span))
    ELSE Append(stk, Spanned(StackNull, span))

\* the Semicolon arm emptying the State at the end of a statement
RunSemicolon_forgets(span, vars, stk, out) ==
    LET some == stk # <<>>
        rest == IF some THEN Pop(stk) ELSE stk
    IN  IF some /\ Top(stk).inner.k = "Ident" /\ Top(stk).inner.id \notin DOMAIN vars
        THEN Outcome("err", rest, vars, out, RunErr("UnassignedVariable", Top(stk).span), <<>>)
        ELSE Outcome("ok",
                     CollapseNulls(rest,
                                   from_self_to_other(IF some THEN Top(stk).span
                                                      ELSE DefaultSpan, span)),
                     NewVariables, out, NoErr, <<>>)

\* the Semicolon arm pushing its Null on whatever is under the popped entry
RunSemicolon_no_collapse(span, vars, stk, out) ==
    LET some == stk # <<>>
        rest == IF some THEN Pop(stk) ELSE stk
    IN  IF some /\ Top(stk).inner.k = "Ident" /\ Top(stk).inner.id \notin DOMAIN vars
        THEN Outcome("err", rest, vars, out, RunErr("UnassignedVariable", Top(stk).span), <<>>)
        ELSE Outcome("ok",
                     Append(rest,
                            Spanned(StackNull,
                                    from_self_to_other(IF some THEN Top(stk).span
                                                       ELSE DefaultSpan, span))),
                     vars, out, NoErr, <<>>)

\* the Semicolon arm
RunSemicolon(span, vars, stk, out) ==
    LET some == stk # <<>>
        rest == IF some THEN Pop(stk) ELSE stk
    IN  IF some /\ Top(stk).inner.k = "Ident" /\ Top(stk).inner.id \notin DOMAIN vars
        THEN Outcome("err", rest, vars, out, RunErr("UnassignedVariable", Top(stk).span), <<>>)
        ELSE Outcome("ok",
                     CollapseNulls(rest,
                                   from_self_to_other(IF some THEN Top(stk).span
                                                      ELSE DefaultSpan, span)),
                     vars, out, NoErr, <<>>)

\* the body of run's loop for one resolved token
RunStep(token, vars, stk, out) ==
    LET tok == token.inner
    IN  CASE tok.t = "Number" ->
                Outcome("ok", Append(stk, Spanned(StackValue(tok.num), token.span)),
                        vars, out, NoErr, <<>>)
          [] tok.t = "Ident" ->
                Outcome("ok", Append(stk, Spanned(StackIdent(tok.id), token.span)),
                        vars, out, NoErr, <<>>)
          [] OTHER ->
                CASE tok.op = "Equals" -> RunEquals(vars, stk, out)
                  [] tok.op \in {"Add", "Sub", "Mul", "Div"} -> RunBinary(tok.op, vars, stk, out)
                  [] tok.op = "Print" -> RunPrint(token.span, vars, stk, out)
                  [] OTHER -> RunSemicolon(token.span, vars, stk, out)

(***************************************************************************)
(* The session (console.rs): one State for the whole loop, one pipeline    *)
(* per line.                                                               *)
(*   raw       the spanned raw items lexed from the current line so far    *)
(*   eol       the lexer has reached the end of the line                   *)
(*   mode      the resolver's TokenTree                                    *)
(*   opstack   the resolver's operator/ordering stack                      *)
(*   resolved  the items resolved_tokens has yielded for this line         *)
(*   taken     how many of them run has consumed                           *)
(*   stack     run's value stack                                           *)
(*   variables State.variables                                             *)
(*   printed   what this call of run has written                           *)
(*   result    "Running", or what run returned ("Ok", "Err"), or "Panic"   *)
(*   lineno    the number of the current line                              *)
(*   text      the characters of the line a character-level lexer reads    *)
(*   cursor    the offset the lexer's input stands at                      *)
(*   interner  the spellings interned so far, in the order of their handles*)
(*   lexed     the items parse_raw_tokens has yielded from text            *)
(* History, written by the model only:                                     *)
(*   env0      variables when the current call of run began                *)
(*   writes    the Equals writes of the current call, in order             *)
(*   written   for each identifier, the value of its latest Equals write   *)
(***************************************************************************)
VARIABLES raw, eol, mode, opstack, resolved, taken, stack, variables, printed, result,
          lineno, env0, writes, written, text, cursor, interner, lexed

vars == <<raw, eol, mode, opstack, resolved, taken, stack, variables, printed, result,
          lineno, env0, writes, written, text, cursor, interner, lexed>>

\* the lexer's own state, which the token-level actions do not look at
lexvars == <<text, cursor, interner, lexed>>

LexIdle == text = <<>> /\ cursor = 0 /\ interner = <<>> /\ lexed = <<>>

Running == [status |-> "Running", err |-> NoErr]

Returned(o) ==
    CASE o.status = "err" -> [status |-> "Err", err |-> o.err]
      [] o.status = "panic" -> [status |-> "Panic", err |-> NoErr]
      [] OTHER -> [status |-> "Ok", err |-> NoErr]

RECURSIVE ApplyWrites(_, _)
ApplyWrites(env, ws) ==
    IF ws = <<>> THEN env ELSE ApplyWrites(Insert(env, Head(ws).id, Head(ws).num), Tail(ws))

Init ==
    /\ raw = <<>>
    /\ eol = FALSE
    /\ mode = DefaultTokenTree
    /\ opstack = <<>>
    /\ resolved = <<>>
    /\ taken = 0
    /\ stack = <<>>
    /\ variables = NewVariables
    /\ printed = <<>>
    /\ result = Running
    /\ lineno = 1
    /\ env0 = NewVariables
    /\ writes = <<>>
    /\ written = NewVariables
    /\ LexIdle

\* run asks for a token the resolver does not have yet
Pulling == result.status = "Running" /\ ~eol /\ taken = Len(resolved)

\* the lexer yields one more raw item, which goes through the processor
LexToken(alphabet, maxlen) ==
    /\ Pulling
    /\ Len(raw) < maxlen
    /\ \E t \in alphabet :
          LET token == Spanned(t, Span(Len(raw), Len(raw) + 1))
              r == Process(mode, opstack, token)
          IN  /\ raw' = Append(raw, token)
              /\ mode' = r.mode
              /\ opstack' = r.stack
              /\ resolved' = resolved \o r.out
    /\ UNCHANGED <<eol, taken, stack, variables, printed, result, lineno, env0, writes,
                   written>>
    /\ UNCHANGED lexvars

\* the lexer is at the end of the line: the processor empties its stack
LexEnd ==
    /\ Pulling
    /\ LET r == Flush(opstack, <<>>)
       IN  /\ opstack' = r.stack
           /\ resolved' = resolved \o r.out
    /\ eol' = TRUE
    /\ UNCHANGED <<raw, mode, taken, stack, variables, printed, result, lineno, env0,
                   writes, written>>
    /\ UNCHANGED lexvars

\* what one executed token does to run's state
Execute(o) ==
    /\ stack' = o.stack
    /\ variables' = o.variables
    /\ printed' = o.printed
    /\ writes' = writes \o o.writes
    /\ written' = ApplyWrites(written, o.writes)

\* RunToken undoing the writes of the call when it returns an error
RunToken_rollback ==
    /\ result.status = "Running"
    /\ taken < Len(resolved)
    /\ taken' = taken + 1
    /\ LET item == resolved[taken + 1]
       IN  IF ~item.ok
           THEN /\ result' = [status |-> "Err", err |-> item]
                /\ variables' = env0
                /\ UNCHANGED <<stack, printed, writes, written>>
           ELSE LET o == RunStep(item.val, variables, stack, printed)
                IN  /\ stack' = o.stack
                    /\ variables' = IF o.status = "err" THEN env0 ELSE o.variables
                    /\ printed' = o.printed
                    /\ writes' = writes \o o.writes
                    /\ written' = ApplyWrites(written, o.writes)
                    /\ result' = IF o.status = "ok" THEN Running ELSE Returned(o)
    /\ UNCHANGED <<raw, eol, mode, opstack, resolved, lineno, env0>>
    /\ UNCHANGED lexvars

\* RunToken going on with the next item after run has returned an error
RunToken_goes_on ==
    /\ result.status \in {"Running", "Err"}
    /\ taken < Len(resolved)
    /\ taken' = taken + 1
    /\ LET item == resolved[taken + 1]
       IN  IF ~item.ok
           THEN /\ result' = [status |-> "Err", err |-> item]
                /\ UNCHANGED <<stack, variables, printed, writes, written>>
           ELSE LET o == RunStep(item.val, variables, stack, printed)
                IN  /\ Execute(o)
                    /\ result' = IF o.status = "ok" THEN result ELSE Returned(o)
    /\ UNCHANGED <<raw, eol, mode, opstack, resolved, lineno, env0>>
    /\ UNCHANGED lexvars

\* run takes the next item of the resolver: an error is returned, a token executed
RunToken ==
    /\ result.status = "Running"
    /\ taken < Len(resolved)
    /\ taken' = taken + 1
    /\ LET item == resolved[taken + 1]
       IN  IF ~item.ok
           THEN /\ result' = [status |-> "Err", err |-> item]
                /\ UNCHANGED <<stack, variables, printed, writes, written>>
           ELSE LET o == RunStep(item.val, variables, stack, printed)
                IN  /\ Execute(o)
                    /\ result' = IF o.status = "ok" THEN Running ELSE Returned(o)
    /\ UNCHANGED <<raw, eol, mode, opstack, resolved, lineno, env0>>
    /\ UNCHANGED lexvars

\* run returning Ok at the end of the resolver's items without final_semicolon
RunFinal_skipped ==
    /\ result.status = "Running"
    /\ eol
    /\ taken = Len(resolved)
    /\ result' = [status |-> "Ok", err |-> NoErr]
    /\ UNCHANGED <<raw, eol, mode, opstack, resolved, taken, lineno, env0>>
    /\ UNCHANGED <<stack, variables, printed, writes, written>>
    /\ UNCHANGED lexvars

\* the resolver is exhausted: run executes final_semicolon and returns
RunFinal ==
    /\ result.status = "Running"
    /\ eol
    /\ taken = Len(resolved)
    /\ LET o == RunStep(Spanned(TokOperator("Semicolon"), DefaultSpan), variables, stack,
                        printed)
       IN  /\ Execute(o)
           /\ result' = Returned(o)
    /\ UNCHANGED <<raw, eol, mode, opstack, resolved, taken, lineno, env0>>
    /\ UNCHANGED lexvars

\* ReadLine with a new State for every line
ReadLine_new_state(maxlines) ==
    /\ result.status \in {"Ok", "Err"}
    /\ lineno < maxlines
    /\ lineno' = lineno + 1
    /\ raw' = <<>>
    /\ eol' = FALSE
    /\ mode' = DefaultTokenTree
    /\ opstack' = <<>>
    /\ resolved' = <<>>
    /\ taken' = 0
    /\ stack' = <<>>
    /\ printed' = <<>>
    /\ result' = Running
    /\ variables' = NewVariables
    /\ env0' = NewVariables
    /\ writes' = <<>>
    /\ UNCHANGED written
    /\ UNCHANGED lexvars

\* the console loop reads the next line; a panic ends the process
ReadLine(maxlines) ==
    /\ result.status \in {"Ok", "Err"}
    /\ lineno < maxlines
    /\ lineno' = lineno + 1
    /\ raw' = <<>>
    /\ eol' = FALSE
    /\ mode' = DefaultTokenTree
    /\ opstack' = <<>>
    /\ resolved' = <<>>
    /\ taken' = 0
    /\ stack' = <<>>
    /\ printed' = <<>>
    /\ result' = Running
    /\ env0' = variables
    /\ writes' = <<>>
    /\ UNCHANGED <<variables, written>>
    /\ UNCHANGED lexvars

Next ==
    \/ LexToken(RawTokens \cup {RawBad}, MaxLen)
    \/ LexEnd
    \/ RunToken
    \/ RunFinal
    \/ ReadLine(MaxLines)

Spec == Init /\ [][Next]_vars

\* lines over values, parentheses, the four arithmetic operators and `=`
ArithTokens ==
    {RawIdent("a"), RawIdent("b"), RawNumber(1), RawNumber(2)}
        \cup {RawSymbol(sym) : sym \in {"Equals", "Add", "Sub", "Mul", "Div", "LeftParen",
                                        "RightParen"}}

NextArith ==
    \/ LexToken(ArithTokens, MaxArithLen)
    \/ LexEnd
    \/ RunToken
    \/ RunFinal

SpecArith == Init /\ [][NextArith]_vars

\* sessions of assignments, sums and prints over one identifier
SessionTokens ==
    {RawIdent("a"), RawNumber(1), RawNumber(2)}
        \cup {RawSymbol(sym) : sym \in {"Equals", "Add", "Print", "Semicolon"}}

NextSession ==
    \/ LexToken(SessionTokens, MaxSessionLen)
    \/ LexEnd
    \/ RunToken
    \/ RunFinal
    \/ ReadLine(MaxLines)

SpecSession == Init /\ [][NextSession]_vars

\* lines of several statements, with a stray `)` and a bad character
StmtTokens ==
    {RawIdent("a"), RawIdent("b"), RawNumber(1), RawBad}
        \cup {RawSymbol(sym) : sym \in {"Equals", "Add", "Semicolon", "RightParen"}}

NextStmt ==
    \/ LexToken(StmtTokens, MaxStmtLen)
    \/ LexEnd
    \/ RunToken
    \/ RunFinal

SpecStmt == Init /\ [][NextStmt]_vars

\* lines that print the literal 5
PrintTokens ==
    {RawIdent("a"), RawNumber(5)}
        \cup {RawSymbol(sym) : sym \in {"Equals", "Print", "Semicolon"}}

NextPrint ==
    \/ LexToken(PrintTokens, MaxPrintLen)
    \/ LexEnd
    \/ RunToken
    \/ RunFinal

SpecPrint == Init /\ [][NextPrint]_vars

\* one call of run on a line `x = e` or `x = e ;`, in a State that earlier calls left
\* empty or with b bound to 3
AssignTokens ==
    {RawIdent("a"), RawIdent("b"), RawNumber(2)}
        \cup {RawSymbol(sym) : sym \in {"Equals", "Add", "Sub", "Mul", "LeftParen",
                                        "RightParen", "Semicolon"}}

AssignEnvs == {NewVariables, Insert(NewVariables, "b", Num(3))}

AssignShape(ts) ==
    /\ ts[1].inner.kind = "Ident"
    /\ Len(ts) >= 2 => ts[2].inner = RawSymbol("Equals")
    /\ \A i \in 3..Len(ts) : ts[i].inner # RawSymbol("Equals")
    /\ \A i \in 1..(Len(ts) - 1) : ts[i].inner # RawSymbol("Semicolon")

InitAssign ==
    /\ raw = <<>>
    /\ eol = FALSE
    /\ mode = DefaultTokenTree
    /\ opstack = <<>>
    /\ resolved = <<>>
    /\ taken = 0
    /\ stack = <<>>
    /\ variables \in AssignEnvs
    /\ printed = <<>>
    /\ result = Running
    /\ lineno = 1
    /\ env0 = variables
    /\ writes = <<>>
    /\ written = variables
    /\ LexIdle

LexAssign == LexToken(AssignTokens, MaxAssignLen) /\ AssignShape(raw')

NextAssign ==
    \/ LexAssign
    \/ LexEnd
    \/ RunToken
    \/ RunFinal

SpecAssign == InitAssign /\ [][NextAssign]_vars

\* one call of run on a line with prints, assignments, sums, parentheses and `;`, in
\* a State that earlier calls left empty or with a bound to 2
SemiTokens ==
    {RawIdent("a"), RawNumber(1)}
        \cup {RawSymbol(sym) : sym \in {"Equals", "Add", "Print", "LeftParen", "RightParen",
                                        "Semicolon"}}

SemiEnvs == {NewVariables, Insert(NewVariables, "a", Num(2))}

InitSemi ==
    /\ raw = <<>>
    /\ eol = FALSE
    /\ mode = DefaultTokenTree
    /\ opstack = <<>>
    /\ resolved = <<>>
    /\ taken = 0
    /\ stack = <<>>
    /\ variables \in SemiEnvs
    /\ printed = <<>>
    /\ result = Running
    /\ lineno = 1
    /\ env0 = variables
    /\ writes = <<>>
    /\ written = variables
    /\ LexIdle

NextSemi ==
    \/ LexToken(SemiTokens, MaxSemiLen)
    \/ LexEnd
    \/ RunToken
    \/ RunFinal

SpecSemi == InitSemi /\ [][NextSemi]_vars

\* the lexer alone, collected item by item as the test of raw_token.rs does, on
\* every text of up to MaxTextLen characters
LexChars == {"a", "b", "1", ".", "+", " ", "\n", "$"}

Texts == UNION {[1..n -> LexChars] : n \in 0..MaxTextLen}

runvars == <<raw, mode, opstack, resolved, taken, stack, variables, printed, result,
             lineno, env0, writes, written>>

InitLex ==
    /\ raw = <<>>
    /\ eol = FALSE
    /\ mode = DefaultTokenTree
    /\ opstack = <<>>
    /\ resolved = <<>>
    /\ taken = 0
    /\ stack = <<>>
    /\ variables = NewVariables
    /\ printed = <<>>
    /\ result = Running
    /\ lineno = 1
    /\ env0 = NewVariables
    /\ writes = <<>>
    /\ written = NewVariables
    /\ text \in Texts
    /\ cursor = 0
    /\ interner = <<>>
    /\ lexed = <<>>

\* the consumer asks for another item: it stops at the first error and at the end
LexPulling == ~eol /\ \A i \in 1..Len(lexed) : lexed[i].ok

\* ParseMutIter::next where a token begins: whitespace is skipped, one item is lexed
LexNext ==
    /\ LexPulling
    /\ LET from == TrimWhitespace(text, cursor)
       IN  /\ from < Len(text)
           /\ LET r == ParseRawToken(text, from, interner)
              IN  /\ lexed' = Append(lexed, r.item)
                  /\ cursor' = r.cursor
                  /\ interner' = r.interner
    /\ UNCHANGED <<text, eol, runvars>>

\* ParseMutIter::next where only whitespace is left: the iterator ends
LexStop ==
    /\ LexPulling
    /\ TrimWhitespace(text, cursor) = Len(text)
    /\ cursor' = Len(text)
    /\ eol' = TRUE
    /\ UNCHANGED <<text, interner, lexed, runvars>>

NextLex ==
    \/ LexNext
    \/ LexStop

SpecLex == InitLex /\ [][NextLex]_vars

(***************************************************************************)
(* Reading the history: the spelling of the line lexed so far, the         *)
(* unmatched parentheses of a token sequence, and the standard postfix     *)
(* form of an arithmetic expression by recursive descent over              *)
(*   expr := term (('+'|'-') term)*     term := factor (('*'|'/') factor)* *)
(*   factor := ident | number | '(' expr ')'                               *)
(***************************************************************************)
Spell(t) ==
    CASE t.kind = "Ident" -> t.id
      [] t.kind = "Number" -> FormatF64(t.num)
      [] t.kind = "Bad" -> "$"
      [] OTHER ->
            CASE t.sym = "Equals" -> "=" [] t.sym = "Add" -> "+" [] t.sym = "Sub" -> "-"
              [] t.sym = "Mul" -> "*" [] t.sym = "Div" -> "/" [] t.sym = "LeftParen" -> "("
              [] t.sym = "RightParen" -> ")" [] t.sym = "Print" -> "%" [] OTHER -> ";"

Spelling(ts) == [i \in 1..Len(ts) |-> Spell(ts[i].inner)]

Line == Spelling(raw)

\* the spelling of what the resolver has yielded; "!" stands for an error item
SpellItem(item) ==
    IF ~item.ok THEN "!"
    ELSE CASE item.val.inner.t = "Ident" -> item.val.inner.id
           [] item.val.inner.t = "Number" -> FormatF64(item.val.inner.num)
           [] OTHER -> Spell(RawSymbol(item.val.inner.op))

Emitted == [i \in 1..Len(resolved) |-> SpellItem(resolved[i])]

IsSym(token, sym) == token.inner.kind = "Symbol" /\ token.inner.sym = sym

IsSymIn(token, syms) == token.inner.kind = "Symbol" /\ token.inner.sym \in syms

IsOperand(token) == token.inner.kind \in {"Ident", "Number"}

\* the spans of the `(` of ts that no `)` of ts closes, outermost first
RECURSIVE OpenParens(_, _)
OpenParens(ts, open) ==
    IF ts = <<>> THEN open
    ELSE IF IsSym(Head(ts), "LeftParen") THEN OpenParens(Tail(ts), Append(open, Head(ts).span))
    ELSE IF IsSym(Head(ts), "RightParen") /\ open # <<>>
         THEN OpenParens(Tail(ts), SubSeq(open, 1, Len(open) - 1))
    ELSE OpenParens(Tail(ts), open)

Unmatched(ts) == OpenParens(ts, <<>>)

\* the resolved token a raw operand or operator stands for
AsToken(token) ==
    Ok(Spanned(CASE token.inner.kind = "Ident" -> TokIdent(token.inner.id)
                 [] token.inner.kind = "Number" -> TokNumber(token.inner.num)
                 [] OTHER -> TokOperator(token.inner.sym),
               token.span))

Parsed(ok, post, rest) == [ok |-> ok, post |-> post, rest |-> rest]

RECURSIVE ParseExpr(_), ParseTerm(_), ParseFactor(_), ExprRest(_), TermRest(_)
ParseFactor(ts) ==
    IF ts = <<>> THEN Parsed(FALSE, <<>>, ts)
    ELSE IF IsOperand(Head(ts)) THEN Parsed(TRUE, <<AsToken(Head(ts))>>, Tail(ts))
    ELSE IF IsSym(Head(ts), "LeftParen")
         THEN LET e == ParseExpr(Tail(ts))
              IN  IF e.ok /\ e.rest # <<>> /\ IsSym(Head(e.rest), "RightParen")
                  THEN Parsed(TRUE, e.post, Tail(e.rest))
                  ELSE Parsed(FALSE, <<>>, ts)
    ELSE Parsed(FALSE, <<>>, ts)

TermRest(p) ==
    IF p.ok /\ p.rest # <<>> /\ IsSymIn(Head(p.rest), {"Mul", "Div"})
    THEN LET f == ParseFactor(Tail(p.rest))
         IN  TermRest(Parsed(f.ok, p.post \o f.post \o <<AsToken(Head(p.rest))>>, f.rest))
    ELSE p

ParseTerm(ts) == TermRest(ParseFactor(ts))

ExprRest(p) ==
    IF p.ok /\ p.rest # <<>> /\ IsSymIn(Head(p.rest), {"Add", "Sub"})
    THEN LET t == ParseTerm(Tail(p.rest))
         IN  ExprRest(Parsed(t.ok, p.post \o t.post \o <<AsToken(Head(p.rest))>>, t.rest))
    ELSE p

ParseExpr(ts) == ExprRest(ParseTerm(ts))

\* ts is a well-bracketed expression over values, parentheses and + - * /
IsArith(ts) == LET e == ParseExpr(ts) IN e.ok /\ e.rest = <<>>

Postfix(ts) == ParseExpr(ts).post

(***************************************************************************)
(* The claims.                                                             *)
(***************************************************************************)
\* C1: once a line that is a well-bracketed expression over values, parentheses and
\* + - * / has been resolved to its end, the items resolved_tokens has yielded are
\* exactly the expression's standard postfix form (no error, no parenthesis).
C1_PostfixOfArithmetic == (eol /\ IsArith(raw)) => resolved = Postfix(raw)

\* the line (1+2)*2 has been resolved to 1 2 + 2 *
C1_Witness ==
    /\ eol
    /\ Line = <<"(", "1", "+", "2", ")", "*", "2">>
    /\ Emitted = <<"1", "2", "+", "2", "*">>

\* C2: once a line `x = e` (x an identifier, e an arithmetic expression) has been
\* resolved to its end, the items yielded are x, the postfix form of e, then that
\* Equals; and for a line `x = y = e` they are x, y, the postfix form of e, the second
\* Equals, then the first.  Until the end of a line that begins so and has no further
\* `=` (a line over values, parentheses and + - * /) the resolver yields no Equals,
\* unless it fails.
C2_AssignmentPostfix ==
    /\ (/\ eol
        /\ Len(raw) >= 3
        /\ raw[1].inner.kind = "Ident"
        /\ IsSym(raw[2], "Equals")
        /\ IsArith(SubSeq(raw, 3, Len(raw))))
       => resolved = <<AsToken(raw[1])>> \o Postfix(SubSeq(raw, 3, Len(raw)))
                        \o <<AsToken(raw[2])>>
    /\ (/\ eol
        /\ Len(raw) >= 5
        /\ raw[1].inner.kind = "Ident"
        /\ IsSym(raw[2], "Equals")
        /\ raw[3].inner.kind = "Ident"
        /\ IsSym(raw[4], "Equals")
        /\ IsArith(SubSeq(raw, 5, Len(raw))))
       => resolved = <<AsToken(raw[1]), AsToken(raw[3])>>
                        \o Postfix(SubSeq(raw, 5, Len(raw)))
                        \o <<AsToken(raw[4]), AsToken(raw[2])>>
    /\ (/\ ~eol
        /\ Len(raw) >= 2
        /\ raw[1].inner.kind = "Ident"
        /\ IsSym(raw[2], "Equals")
        /\ \/ \A i \in 3..Len(raw) : ~IsSym(raw[i], "Equals")
           \/ /\ Len(raw) >= 4
              /\ raw[3].inner.kind = "Ident"
              /\ IsSym(raw[4], "Equals")
              /\ \A i \in 5..Len(raw) : ~IsSym(raw[i], "Equals")
        /\ \A i \in 1..Len(resolved) : resolved[i].ok)
       => \A i \in 1..Len(resolved) : resolved[i].val.inner # TokOperator("Equals")

\* the line a = b = 1 + 2 has been resolved to a b 1 2 + = =
C2_Witness ==
    /\ eol
    /\ Line = <<"a", "=", "b", "=", "1", "+", "2">>
    /\ Emitted = <<"a", "b", "1", "2", "+", "=", "=">>

LastItem == resolved[Len(resolved)]

\* C3: when the end of the line is reached with a `(` that no `)` has closed, the last
\* item the resolver yields is the error UnclosedLeftBracket, spanned at the innermost
\* such `(`; and the resolver yields that error in no other case.
C3_UnclosedLeftBracket ==
    /\ (eol /\ Unmatched(raw) # <<>>)
       => /\ resolved # <<>>
          /\ LastItem = Err("ProcessorError", "UnclosedLeftBracket",
                            Unmatched(raw)[Len(Unmatched(raw))])
    /\ \A i \in 1..Len(resolved) :
          (~resolved[i].ok /\ resolved[i].kind = "UnclosedLeftBracket")
          => (eol /\ i = Len(resolved) /\ Unmatched(raw) # <<>>)

\* the line (1 + 0 has been resolved: 1 0 + and the error at the `(`
C3_Witness ==
    /\ eol
    /\ Line = <<"(", "1", "+", "0">>
    /\ LastItem = Err("ProcessorError", "UnclosedLeftBracket", Span(0, 1))

\* the step lexes one more raw token of the current line
LexStep == Len(raw') = Len(raw) + 1

\* C4: when a `)` arrives in expect-operator mode and every `(` before it is closed,
\* the resolver yields the error UnclosedRightBracket spanned at that `)`.
C4_UnclosedRightBracket ==
    [][(/\ LexStep
        /\ IsSym(raw'[Len(raw')], "RightParen")
        /\ mode = "EndExpression"
        /\ Unmatched(raw) = <<>>)
       => /\ resolved' # <<>>
          /\ resolved'[Len(resolved')]
                = Err("ProcessorError", "UnclosedRightBracket", raw'[Len(raw')].span)]_vars

\* the line 1 + 0 ) has been resolved up to the error at the `)`
C4_Witness ==
    /\ Line = <<"1", "+", "0", ")">>
    /\ LastItem = Err("ProcessorError", "UnclosedRightBracket", Span(3, 4))

\* C5: the mode starts as expect-value (StartExpression); a raw token is refused with
\* ExpectedExpression at its span exactly when it is one of = + - * / ) in expect-value
\* mode, and with DidNotExpectExpression at its span exactly when it is an identifier,
\* a number, `(` or `%` in expect-operator mode; an accepted token leaves the mode at
\* expect-value if it is an operator or `(`, at expect-operator if it is a value or `)`.
C5_ModeMachine ==
    /\ Init => mode = "StartExpression"
    /\ [][(LexStep /\ raw'[Len(raw')].inner.kind # "Bad")
          => LET token == raw'[Len(raw')]
                 last == resolved'[Len(resolved')]
                 refused == /\ resolved' # resolved
                            /\ ~last.ok
                            /\ last.kind \in {"ExpectedExpression", "DidNotExpectExpression"}
             IN  IF mode = "StartExpression"
                      /\ IsSymIn(token, {"Equals", "Add", "Sub", "Mul", "Div", "RightParen"})
                 THEN /\ refused
                      /\ last = Err("ProcessorError", "ExpectedExpression", token.span)
                 ELSE IF mode = "EndExpression"
                           /\ (IsOperand(token) \/ IsSymIn(token, {"LeftParen", "Print"}))
                 THEN /\ refused
                      /\ last = Err("ProcessorError", "DidNotExpectExpression", token.span)
                 ELSE /\ ~refused
                      /\ mode' = IF IsOperand(token) \/ IsSym(token, "RightParen")
                                 THEN "EndExpression" ELSE "StartExpression"]_vars

\* the `%` of the line 1 % has been refused in expect-operator mode
C5_Witness ==
    /\ Line = <<"1", "%">>
    /\ mode = "EndExpression"
    /\ LastItem = Err("ProcessorError", "DidNotExpectExpression", Span(1, 2))

\* the number of value-stack entries an operator pops or reads
Arity(op) ==
    CASE op \in {"Equals", "Add", "Sub", "Mul", "Div"} -> 2
      [] op = "Print" -> 1
      [] OTHER -> 0

\* C6: every operator run is about to execute finds the entries its arity requires on
\* the value stack (two for Add, Sub, Mul, Div and Equals, one for the print operator),
\* and no pop in run hits an empty stack.
C6_OperandsPrecedeOperators ==
    /\ result.status # "Panic"
    /\ (/\ result.status = "Running"
        /\ taken < Len(resolved)
        /\ resolved[taken + 1].ok
        /\ resolved[taken + 1].val.inner.t = "Operator")
       => Len(stack) >= Arity(resolved[taken + 1].val.inner.op)

\* C7: in every call of run, each identifier is bound exactly when an Equals has
\* written it in this or an earlier call, and to the value of the latest such write.
C7_BindingsPersist ==
    /\ DOMAIN variables = DOMAIN written
    /\ \A id \in DOMAIN variables : variables[id] = written[id]

\* after the line a = 1 + 2, the second line % a has printed 3 without writing a
C7_Witness ==
    /\ lineno = 2
    /\ writes = <<>>
    /\ env0 = [id \in {"a"} |-> Num(3)]
    /\ Line = <<"%", "a">>
    /\ printed = <<" 3">>
    /\ result.status = "Ok"

\* C8: when run has returned an error, of the lexer, of the resolver or of run itself,
\* the environment is the environment the call began with, changed by the Equals
\* writes the call executed before the error, in order.
C8_NoRollback ==
    result.status = "Err" => variables = ApplyWrites(env0, writes)

\* the line a = 1 ; b + 1 has failed with UnassignedVariable at b, a bound to 1
C8_Witness ==
    /\ Line = <<"a", "=", "1", ";", "b", "+", "1">>
    /\ result = [status |-> "Err", err |-> RunErr("UnassignedVariable", Span(4, 5))]
    /\ writes # <<>>
    /\ variables = [id \in {"a"} |-> Num(1)]

\* the entry of the value stack at depth i from the top
FromTop(i) == stack[Len(stack) + 1 - i]

\* popping e as a number fails
Unresolvable(e) ==
    \/ e.inner.k = "Null"
    \/ e.inner.k = "Ident" /\ e.inner.id \notin DOMAIN variables

ErrorOf(e) ==
    RunErr(IF e.inner.k = "Null" THEN "AttemptedToUseNull" ELSE "UnassignedVariable", e.span)

\* C9: when run executes Add, Sub, Mul, Div or Equals and the first operand it pops
\* as a number (the right one, then for the four arithmetic operators the left one)
\* that is an unbound identifier or Null, run returns UnassignedVariable,
\* respectively AttemptedToUseNull, spanned at exactly that entry's span.
C9_OperandErrors ==
    [][(/\ result.status = "Running"
        /\ taken' = taken + 1
        /\ resolved[taken + 1].ok
        /\ resolved[taken + 1].val.inner.t = "Operator"
        /\ resolved[taken + 1].val.inner.op \in {"Equals", "Add", "Sub", "Mul", "Div"}
        /\ stack # <<>>)
       => /\ Unresolvable(FromTop(1))
             => result' = [status |-> "Err", err |-> ErrorOf(FromTop(1))]
          /\ (/\ ~Unresolvable(FromTop(1))
              /\ resolved[taken + 1].val.inner.op # "Equals"
              /\ Len(stack) >= 2
              /\ Unresolvable(FromTop(2)))
             => result' = [status |-> "Err", err |-> ErrorOf(FromTop(2))]]_vars

\* the line a + 1 with a unbound has failed with UnassignedVariable at a
C9_Witness ==
    /\ Line = <<"a", "+", "1">>
    /\ variables = NewVariables
    /\ result = [status |-> "Err", err |-> RunErr("UnassignedVariable", Span(0, 1))]

\* C10 as stated: the run of a line that begins 5 % (the line 5 % ; is one) returns
\* Ok and has written exactly " 5".
C10_Original ==
    (/\ Len(raw) >= 2
     /\ SubSeq(Line, 1, 2) = <<"5", "%">>
     /\ result.status # "Running")
    => (result.status = "Ok" /\ printed = <<" 5">>)

\* C10, amended: the run of the line % 5 ; returns Ok and has written exactly " 5";
\* the run of a line that begins 5 % returns DidNotExpectExpression at the `%` and
\* has written nothing.
C10_PrintIsPrefix ==
    /\ (eol /\ Line = <<"%", "5", ";">> /\ result.status # "Running")
       => (result.status = "Ok" /\ printed = <<" 5">>)
    /\ (Len(raw) >= 2 /\ SubSeq(Line, 1, 2) = <<"5", "%">> /\ result.status # "Running")
       => /\ result = [status |-> "Err",
                       err |-> Err("ProcessorError", "DidNotExpectExpression", Span(1, 2))]
          /\ printed = <<>>

\* the line % 5 ; has run to the end and printed " 5"
C10_Witness ==
    /\ eol
    /\ Line = <<"%", "5", ";">>
    /\ result.status = "Ok"
    /\ printed = <<" 5">>

(***************************************************************************)
(* The value of an arithmetic expression in an environment, by the same    *)
(* recursive descent: val is the value, ok is FALSE when the tokens are    *)
(* not an expression or name an identifier the environment does not bind.  *)
(***************************************************************************)
Valued(ok, val, rest) == [ok |-> ok, val |-> val, rest |-> rest]

RECURSIVE EvalExpr(_, _), EvalTerm(_, _), EvalFactor(_, _), EvalExprRest(_, _),
          EvalTermRest(_, _)
EvalFactor(ts, env) ==
    IF ts = <<>> THEN Valued(FALSE, NaN, ts)
    ELSE IF Head(ts).inner.kind = "Number" THEN Valued(TRUE, Head(ts).inner.num, Tail(ts))
    ELSE IF Head(ts).inner.kind = "Ident"
         THEN IF Head(ts).inner.id \in DOMAIN env
              THEN Valued(TRUE, env[Head(ts).inner.id], Tail(ts))
              ELSE Valued(FALSE, NaN, ts)
    ELSE IF IsSym(Head(ts), "LeftParen")
         THEN LET e == EvalExpr(Tail(ts), env)
              IN  IF e.ok /\ e.rest # <<>> /\ IsSym(Head(e.rest), "RightParen")
                  THEN Valued(TRUE, e.val, Tail(e.rest))
                  ELSE Valued(FALSE, NaN, ts)
    ELSE Valued(FALSE, NaN, ts)

EvalTermRest(p, env) ==
    IF p.ok /\ p.rest # <<>> /\ IsSymIn(Head(p.rest), {"Mul", "Div"})
    THEN LET f == EvalFactor(Tail(p.rest), env)
         IN  EvalTermRest(Valued(f.ok,
                                 IF ~f.ok THEN NaN
                                 ELSE IF IsSym(Head(p.rest), "Mul") THEN F64Mul(p.val, f.val)
                                 ELSE F64Div(p.val, f.val),
                                 f.rest), env)
    ELSE p

EvalTerm(ts, env) == EvalTermRest(EvalFactor(ts, env), env)

EvalExprRest(p, env) ==
    IF p.ok /\ p.rest # <<>> /\ IsSymIn(Head(p.rest), {"Add", "Sub"})
    THEN LET t == EvalTerm(Tail(p.rest), env)
         IN  EvalExprRest(Valued(t.ok,
                                 IF ~t.ok THEN NaN
                                 ELSE IF IsSym(Head(p.rest), "Add") THEN F64Add(p.val, t.val)
                                 ELSE F64Sub(p.val, t.val),
                                 t.rest), env)
    ELSE p

EvalExpr(ts, env) == EvalExprRest(EvalTerm(ts, env), env)

\* the line is `x = e` or `x = e ;`: e is what stands between the `=` and the end
\* or the final `;`
AssignedExpr ==
    IF Len(raw) >= 3 /\ IsSym(raw[Len(raw)], "Semicolon") THEN SubSeq(raw, 3, Len(raw) - 1)
    ELSE SubSeq(raw, 3, Len(raw))

IsAssignLine ==
    /\ Len(raw) >= 3
    /\ raw[1].inner.kind = "Ident"
    /\ IsSym(raw[2], "Equals")
    /\ IsArith(AssignedExpr)

\* C11: when run returns Ok for a line `x = e` or `x = e ;`, e a well-bracketed
\* arithmetic expression over number literals and identifiers, every identifier of e
\* was bound when the call began, and the call leaves x bound to the value of e under
\* the standard precedence and associativity and every other binding as it was.
C11_AssignsValue ==
    (result.status = "Ok" /\ IsAssignLine)
        => LET e == EvalExpr(AssignedExpr, env0)
           IN  /\ e.ok
               /\ e.rest = <<>>
               /\ variables = Insert(env0, raw[1].inner.id, e.val)

\* `a = 2 * ( b + 2 ) ;` with b bound to 3 has bound a to 10 and left b at 3
C11_Witness ==
    /\ result.status = "Ok"
    /\ Line = <<"a", "=", "2", "*", "(", "b", "+", "2", ")", ";">>
    /\ env0 = Insert(NewVariables, "b", Num(3))
    /\ variables = Insert(Insert(NewVariables, "b", Num(3)), "a", Num(10))

\* the positions of raw that are a whole `;`-separated statement made of one
\* identifier the State did not bind when the call began; the statement is over when
\* a `;` follows it or the line has ended
BareUnbound ==
    {i \in 1..Len(raw) :
        /\ raw[i].inner.kind = "Ident"
        /\ raw[i].inner.id \notin DOMAIN env0
        /\ i > 1 => IsSym(raw[i - 1], "Semicolon")
        /\ IF i < Len(raw) THEN IsSym(raw[i + 1], "Semicolon") ELSE eol}

\* a line of identifiers, numbers and `;` only, which the resolver accepted so far
IsValueStatements ==
    /\ \A i \in 1..Len(raw) : IsOperand(raw[i]) \/ IsSym(raw[i], "Semicolon")
    /\ \A i \in 1..Len(resolved) : resolved[i].ok

\* C12: on a line of `;`-separated statements that are each empty or one value, once
\* run has returned and some statement was a single identifier not bound at that
\* point, run has failed with UnassignedVariable at the span of the first such
\* identifier, whether that statement is the last one or further statements follow.
C12_BareUnboundFails ==
    (result.status # "Running" /\ IsValueStatements /\ BareUnbound # {})
        => LET i == CHOOSE j \in BareUnbound : \A k \in BareUnbound : j <= k
           IN  result = [status |-> "Err",
                         err |-> RunErr("UnassignedVariable", raw[i].span)]

Payloads(stk) == [i \in 1..Len(stk) |-> stk[i].inner]

Covers(outer, inner) == outer.start <= inner.start /\ inner.end <= outer.end

\* the step is run taking the next resolved item
TakesItem == taken' = taken + 1

\* the step is run executing final_semicolon
TakesFinal == taken' = taken /\ result.status = "Running" /\ result'.status # "Running"

\* the step executes a Semicolon, of the line or the final one, without an error
SemicolonDone ==
    \/ /\ TakesItem
       /\ resolved[taken'].ok
       /\ resolved[taken'].val.inner = TokOperator("Semicolon")
       /\ result'.status = "Running"
    \/ TakesFinal /\ result'.status = "Ok"

SemicolonSpan == IF TakesItem THEN resolved[taken'].val.span ELSE DefaultSpan

\* C13: every Semicolon that executes leaves one Null on top of the stack, with no
\* Null under it, whose span covers the `;`; and when the top was already a Null (the
\* Semicolon before it, no value between), the payloads of the stack are what they
\* were and the new Null's span covers the old one's, hence every `;` of the run.
C13_SemicolonsCollapse ==
    [][SemicolonDone =>
          /\ stack' # <<>>
          /\ Top(stack').inner = StackNull
          /\ Len(stack') >= 2 => stack'[Len(stack') - 1].inner # StackNull
          /\ Covers(Top(stack').span, SemicolonSpan)
          /\ (stack # <<>> /\ Top(stack).inner = StackNull)
                => /\ Payloads(stack') = Payloads(stack)
                   /\ Covers(Top(stack').span, Top(stack).span)]_vars

\* `; ; ; ;` has run to its end: four Semicolons of the line and the final one have
\* left a single Null spanning all four `;`
C13_Witness ==
    /\ result.status = "Ok"
    /\ Line = <<";", ";", ";", ";">>
    /\ stack = <<Spanned(StackNull, Span(0, 4))>>

\* the step is run executing the operator op of the line
Executes(op) ==
    /\ TakesItem
    /\ resolved[taken'].ok
    /\ resolved[taken'].val.inner = TokOperator(op)

\* C14: when Div executes on two entries that resolve to numbers, whatever the
\* divisor, run goes on with one Value in their place (positive infinity for a
\* positive dividend over the literal 0), and the line `1 / 0`, with or without a
\* final `;`, returns Ok.
C14_DivNeverFails ==
    /\ [][(Executes("Div") /\ Len(stack) >= 2 /\ ~Unresolvable(FromTop(1))
             /\ ~Unresolvable(FromTop(2)))
            => /\ result'.status = "Running"
               /\ Len(stack') = Len(stack) - 1
               /\ Top(stack').inner.k = "Value"
               /\ (FromTop(1).inner = StackValue(Num(0)) /\ FromTop(2).inner = StackValue(Num(1)))
                     => Top(stack').inner = StackValue(Inf(1))]_vars
    /\ []((result.status # "Running" /\ Len(raw) >= 3
             /\ SubSeq(Line, 1, 3) = <<"1", "/", "0">>
             /\ (Len(raw) > 3 => Line = <<"1", "/", "0", ";">>))
            => result.status = "Ok")

\* `1 / 0 ;` : the Div has just executed and left positive infinity on the stack
C14_Witness ==
    /\ Line = <<"1", "/", "0", ";">>
    /\ result.status = "Running"
    /\ stack = <<Spanned(StackValue(Inf(1)), Span(0, 3))>>

(***************************************************************************)
(* Reading a text: the runs the lexer is to find, from the text alone.     *)
(***************************************************************************)
\* the class of the character at offset i: a `.` belongs to a numeric run when the
\* run it continues began with a digit
RECURSIVE CharClass(_, _)
CharClass(txt, i) ==
    LET c == txt[i + 1]
    IN  CASE c \in Whitespace -> "space"
          [] c \in Alphabetic -> "alphabetic"
          [] c \in Numeric -> "numeric"
          [] c = "." /\ i > 0 /\ CharClass(txt, i - 1) = "numeric" -> "numeric"
          [] SymbolOf(c) # "None" -> "symbol"
          [] OTHER -> "other"

\* a token begins at offset i: a run begins there, or a symbol or other character
\* stands there
TokenStart(txt, i) ==
    /\ CharClass(txt, i) # "space"
    /\ \/ i = 0
       \/ CharClass(txt, i) \in {"symbol", "other"}
       \/ CharClass(txt, i - 1) # CharClass(txt, i)

\* where the token that begins at offset i ends
TokenEnd(txt, i) ==
    IF CharClass(txt, i) \in {"symbol", "other"} THEN i + 1
    ELSE CHOOSE j \in (i + 1)..Len(txt) :
            /\ \A k \in i..(j - 1) : CharClass(txt, k) = CharClass(txt, i)
            /\ j < Len(txt) => CharClass(txt, j) # CharClass(txt, i)

TokenStarts(txt) == {i \in 0..(Len(txt) - 1) : TokenStart(txt, i)}

\* the numeric run [i, j) of txt has more than one `.`
TwoDots(txt, i, j) == Cardinality({k \in i..(j - 1) : txt[k + 1] = "."}) > 1

LastLexed == lexed[Len(lexed)]

\* the last item lexed is the error kind over span
LexFailed(kind, span) ==
    /\ lexed # <<>>
    /\ ~LastLexed.ok
    /\ LastLexed.kind = kind
    /\ LastLexed.span = span

\* the first token of the text that is neither an identifier, a number that parses
\* nor a symbol, if there is one
FirstBadStart ==
    LET bad == {i \in TokenStarts(text) :
                   \/ CharClass(text, i) = "other"
                   \/ CharClass(text, i) = "numeric" /\ TwoDots(text, i, TokenEnd(text, i))}
    IN  IF bad = {} THEN -1 ELSE CHOOSE i \in bad : \A k \in bad : i <= k

LexDone == eol \/ (lexed # <<>> /\ ~LastLexed.ok)

RECURSIVE Ascending(_)
Ascending(S) ==
    IF S = {} THEN <<>>
    ELSE LET least == CHOOSE i \in S : \A k \in S : i <= k
         IN  <<least>> \o Ascending(S \ {least})

\* item is the token the run or symbol of text at [from, to) stands for, with the
\* handle the interner gives its spelling on a later insert
LexedFrom(item, from, to) ==
    /\ item.ok
    /\ item.val.span = Span(from, to)
    /\ CASE CharClass(text, from) = "alphabetic" ->
              /\ item.val.inner.kind = "Ident"
              /\ InternerInsert(interner, Concat(Slice(text, from, to)))
                    = [interner |-> interner, id |-> item.val.inner.id]
         [] CharClass(text, from) = "numeric" -> item.val.inner.kind = "Number"
         [] OTHER -> item.val.inner = RawSymbol(SymbolOf(text[from + 1]))

\* C16: the items lexed without an error are, in order, one token for each maximal
\* alphabetic run, numeric run and symbol character of the text, spanned over it, an
\* identifier carrying the handle a later insert of its spelling returns; and when
\* the lexer has reached the end, there is one item for every run and symbol, so
\* that whitespace and a final newline have yielded nothing.
C16_OneTokenPerRun ==
    LET starts == Ascending(TokenStarts(text))
    IN  /\ Len(lexed) <= Len(starts)
        /\ \A k \in 1..Len(lexed) :
              lexed[k].ok => LexedFrom(lexed[k], starts[k], TokenEnd(text, starts[k]))
        /\ eol => Len(lexed) = Len(starts)

\* `a +1` and a newline have been lexed to Ident(a), Add, Number(1), and a is the
\* interner's only spelling
C16_Witness ==
    /\ eol
    /\ text = <<"a", " ", "+", "1", "\n">>
    /\ lexed = <<Ok(Spanned(RawIdent(0), Span(0, 1))),
                 Ok(Spanned(RawSymbol("Add"), Span(2, 3))),
                 Ok(Spanned(RawNumber(1), Span(3, 4)))>>
    /\ interner = <<"a">>

\* C17: when Equals executes on a right entry that resolves to a number and a left
\* entry that is no identifier, run returns AssigningToExpression for a Value and
\* AssigningToNull for a Null, spanned at the left entry's span, and the State is
\* what it was before that Equals.
C17_AssigningToNonIdent ==
    [][(Executes("Equals") /\ Len(stack) >= 2 /\ ~Unresolvable(FromTop(1))
          /\ FromTop(2).inner.k # "Ident")
         => /\ result' = [status |-> "Err",
                          err |-> RunErr(IF FromTop(2).inner.k = "Value"
                                         THEN "AssigningToExpression"
                                         ELSE "AssigningToNull",
                                         FromTop(2).span)]
            /\ variables' = variables]_vars

\* `a = 1 ; ; 1 =` : the second Equals found the Null of the first statement on its
\* left and run returned AssigningToNull over that Null, with a still bound to 1
C17_Witness ==
    /\ Line = <<"a", "=", "1", ";", ";", "1", "=">>
    /\ result = [status |-> "Err", err |-> RunErr("AssigningToNull", Span(0, 4))]
    /\ variables = Insert(NewVariables, "a", Num(1))

\* the number a stack entry that is a Value or a bound identifier resolves to
Resolve(e) == IF e.inner.k = "Value" THEN e.inner.num ELSE variables[e.inner.id]

\* C18: when Equals executes on a right entry that resolves to n and a left entry
\* Ident(x), run goes on with x set to n, every other binding as it was, and the two
\* entries replaced by the one entry Ident(x); and when run returns Ok for a line
\* `x = y = n`, n a number literal, x and y are both bound to n.
C18_EqualsBinds ==
    /\ [][(Executes("Equals") /\ Len(stack) >= 2 /\ ~Unresolvable(FromTop(1))
             /\ FromTop(2).inner.k = "Ident")
            => /\ result'.status = "Running"
               /\ variables' = Insert(variables, FromTop(2).inner.id, Resolve(FromTop(1)))
               /\ Payloads(stack')
                     = Append(Payloads(SubSeq(stack, 1, Len(stack) - 2)), FromTop(2).inner)]_vars
    /\ []((/\ result.status = "Ok"
           /\ Len(raw) = 5
           /\ raw[1].inner.kind = "Ident" /\ IsSym(raw[2], "Equals")
           /\ raw[3].inner.kind = "Ident" /\ IsSym(raw[4], "Equals")
           /\ raw[5].inner.kind = "Number")
            => /\ {raw[1].inner.id, raw[3].inner.id} \subseteq DOMAIN variables
               /\ variables[raw[1].inner.id] = raw[5].inner.num
               /\ variables[raw[3].inner.id] = raw[5].inner.num)

\* `a = b = 2` has returned Ok with a and b both bound to 2
C18_Witness ==
    /\ result.status = "Ok"
    /\ Line = <<"a", "=", "b", "=", "2">>
    /\ variables = Insert(Insert(NewVariables, "b", Num(2)), "a", Num(2))

\* C19: when the print operator executes on a Value or a bound identifier, run goes
\* on having written one more item, that entry's number, with the payloads of the
\* stack as they were; on a Null it returns AttemptedToPrintNull over the Null and
\* writes nothing; and when run returns Ok for `% a = 2` with a bound, it has written
\* the number a had and a is 2.
C19_PrintKeepsStack ==
    /\ [][(Executes("Print") /\ stack # <<>>)
            => /\ FromTop(1).inner.k = "Null"
                     => /\ result' = [status |-> "Err",
                                      err |-> RunErr("AttemptedToPrintNull", FromTop(1).span)]
                        /\ printed' = printed
               /\ ~Unresolvable(FromTop(1))
                     => /\ result'.status = "Running"
                        /\ printed' = Append(printed, " " \o FormatF64(Resolve(FromTop(1))))
                        /\ Payloads(stack') = Payloads(stack)]_vars
    /\ []((result.status = "Ok" /\ Line = <<"%", "a", "=", "2">> /\ "a" \in DOMAIN env0)
            => /\ printed = <<" " \o FormatF64(env0["a"])>>
               /\ variables = Insert(env0, "a", Num(2)))

\* the second line `% a = 2`, after a first line bound a to 1, has written ` 1` and
\* left a at 2
C19_Witness ==
    /\ result.status = "Ok"
    /\ Line = <<"%", "a", "=", "2">>
    /\ env0 = Insert(NewVariables, "a", Num(1))
    /\ printed = <<" 1">>
    /\ variables = Insert(NewVariables, "a", Num(2))

\* C20: a step changes the State only when it is an Equals that executes without an
\* error, and every such Equals writes one key: the State after it is the State
\* before it with that one identifier set, and the write is recorded once.
C20_OnlyEqualsWrites ==
    /\ [][variables' # variables
            => /\ Executes("Equals")
               /\ result'.status = "Running"]_vars
    /\ [][(Executes("Equals") /\ result'.status = "Running")
            => /\ Len(writes') = Len(writes) + 1
               /\ \E id \in DOMAIN variables' :
                     /\ variables' = Insert(variables, id, variables'[id])
                     /\ writes'[Len(writes')] = [id |-> id, num |-> variables'[id]]]_vars

\* `a = 1 ;` has returned Ok: the Equals wrote a, the two Semicolons wrote nothing
C20_Witness ==
    /\ result.status = "Ok"
    /\ Line = <<"a", "=", "1", ";">>
    /\ env0 = NewVariables
    /\ writes = <<[id |-> "a", num |-> Num(1)]>>
    /\ variables = Insert(NewVariables, "a", Num(1))

\* what a call of run has done so far
RunState == <<taken, stack, variables, printed, writes, result>>

\* C21: run takes the resolved items one by one in the order they were yielded; an
\* error item is returned as it is with nothing executed; and once run has returned,
\* with an error or Ok, nothing more of that line is taken or executed, the final
\* Semicolon included: the State, the output and the one result stay as they are
\* until the next line is read.
C21_StopsAtFirstError ==
    [][/\ taken' # taken => (lineno' # lineno \/ (TakesItem /\ result.status = "Running"))
       /\ lineno' = lineno
             => /\ Len(resolved') >= Len(resolved)
                /\ SubSeq(resolved', 1, Len(resolved)) = resolved
       /\ (TakesItem /\ ~resolved[taken'].ok)
             => /\ result' = [status |-> "Err", err |-> resolved[taken']]
                /\ UNCHANGED <<stack, variables, printed, writes>>
       /\ (result.status # "Running" /\ lineno' = lineno) => UNCHANGED RunState]_vars

\* `a = b + 1` with b unbound: the Add has failed at b and the Equals the resolver
\* yielded after it has not been taken
C21_Witness ==
    /\ Line = <<"a", "=", "b", "+", "1">>
    /\ eol
    /\ result = [status |-> "Err", err |-> RunErr("UnassignedVariable", Span(2, 3))]
    /\ taken = 4
    /\ Len(resolved) = 5
    /\ variables = NewVariables

Nulls(stk) == {i \in 1..Len(stk) : stk[i].inner = StackNull}

\* C22: the value stack never holds two Nulls next to each other, so its Nulls are
\* at most one more than its other entries; and right after a Semicolon has executed
\* the stack is not empty, its top is Null and the entry under it, if any, is not.
C22_NoAdjacentNulls ==
    /\ [](/\ \A i \in 1..(Len(stack) - 1) : ~(i \in Nulls(stack) /\ (i + 1) \in Nulls(stack))
          /\ 2 * Cardinality(Nulls(stack)) <= Len(stack) + 1)
    /\ [][SemicolonDone
            => /\ Len(stack') \in Nulls(stack')
               /\ (Len(stack') - 1) \notin Nulls(stack')]_vars

\* `; ; 1` has returned Ok: the Semicolon that took the 1 merged the Null under it
\* and one Null over the whole line is left
C22_Witness ==
    /\ result.status = "Ok"
    /\ Line = <<";", ";", "1">>
    /\ stack = <<Spanned(StackNull, Span(0, 3))>>

(***************************************************************************)
(* One whole call of the pipeline as a function of the line and the State  *)
(* it starts from: the processor and run take the raw tokens one by one,   *)
(* run executing what each token makes the resolver yield, then what the   *)
(* end of the line yields, then final_semicolon.                           *)
(***************************************************************************)
Called(status, stk, env, out, err) ==
    [status |-> status, stack |-> stk, variables |-> env, printed |-> out, err |-> err]

\* run's loop over the items the resolver has yielded, until one fails
RECURSIVE RunItems(_, _)
RunItems(items, c) ==
    IF items = <<>> \/ c.status # "Running" THEN c
    ELSE IF ~Head(items).ok
         THEN Called("Err", c.stack, c.variables, c.printed, Head(items))
    ELSE LET o == RunStep(Head(items).val, c.variables, c.stack, c.printed)
             r == IF o.status = "ok" THEN Running ELSE Returned(o)
         IN  RunItems(Tail(items), Called(r.status, o.stack, o.variables, o.printed, r.err))

RECURSIVE RunTokens(_, _, _, _)
RunTokens(ts, md, stk, c) ==
    IF c.status # "Running" THEN c
    ELSE IF ts = <<>>
         THEN LET d == RunItems(Flush(stk, <<>>).out, c)
              IN  IF d.status # "Running" THEN d
                  ELSE LET o == RunStep(Spanned(TokOperator("Semicolon"), DefaultSpan),
                                        d.variables, d.stack, d.printed)
                           r == Returned(o)
                       IN  Called(r.status, o.stack, o.variables, o.printed, r.err)
    ELSE LET p == Process(md, stk, Head(ts))
         IN  RunTokens(Tail(ts), p.mode, p.stack, RunItems(p.out, c))

RunLine(ts, env) ==
    RunTokens(ts, DefaultTokenTree, <<>>, Called("Running", <<>>, env, <<>>, NoErr))

\* the call of run on the line lexed so far is over
LineDone == result.status # "Running"

\* what the finished call of the state machine and a call of RunLine have in common
SameOutcome(c) ==
    /\ c.variables = variables
    /\ c.printed = printed
    /\ c.status = result.status
    /\ c.status = "Err" => (c.err.family = result.err.family /\ c.err.kind = result.err.kind)

\* the line lexed so far with a `;` after it
WithSemicolon == Append(raw, Spanned(RawSymbol("Semicolon"), Span(Len(raw), Len(raw) + 1)))

\* RunLine gives what the state machine gives
RunLineAgrees == LineDone => SameOutcome(RunLine(raw, env0))

\* the line lexed so far does not end in `;`
NoFinalSemicolon == raw = <<>> \/ ~IsSym(raw[Len(raw)], "Semicolon")

\* C23 as stated: when the call of run on a line that does not end in `;` is over, a
\* call on the same line with a `;` after it, from the same State, leaves the same
\* State, the same output and the same result: Ok, or an error of the same kind.
C23_Original == (LineDone /\ NoFinalSemicolon) => SameOutcome(RunLine(WithSemicolon, env0))

\* C23, amended: the same, for a line in which every `(` is closed; and on any line
\* that does not end in `;` the two calls leave the same State and the same output
\* and both return Ok or neither does.
C23_ExplicitSemicolon ==
    (LineDone /\ NoFinalSemicolon)
        => LET c == RunLine(WithSemicolon, env0)
           IN  /\ Unmatched(raw) = <<>> => SameOutcome(c)
               /\ c.variables = variables
               /\ c.printed = printed
               /\ c.status = result.status

\* `% a` with a bound to 2 has written ` 2` and returned Ok, and so does `% a ;`
C23_Witness ==
    /\ eol
    /\ result.status = "Ok"
    /\ Line = <<"%", "a">>
    /\ env0 = Insert(NewVariables, "a", Num(2))
    /\ printed = <<" 2">>
    /\ RunLine(WithSemicolon, env0).status = "Ok"
    /\ RunLine(WithSemicolon, env0).printed = printed

====
